---------------------------- MODULE Spec2Model ----------------------------
(***************************************************************************)
(* A model of load_team.py: the sectioned-CSV parser (read_sections), the  *)
(* z-score valuation (compute_prices) and the replace-by-tag persistence   *)
(* (insert_data).                                                          *)
(*                                                                         *)
(* Text is modelled as sequences of one-character strings, so that strip,  *)
(* replace, lower and the numeric parse are computed and not assumed.      *)
(***************************************************************************)
EXTENDS Integers, Sequences, FiniteSets, TLC

VARIABLES
    \* read_sections
    rows,             \* the rows the csv reader has yielded so far
    current_section,  \* local current_section (None before the first sentinel)
    headers,          \* local headers
    sections,         \* local sections: label -> list of records
    origin,           \* history: for each record of sections, the index of its row
    last_kind,        \* history: the branch of the loop body the last row took
    \* compute_prices
    records,            \* argument records; '_price' is added to each
    categories,         \* argument categories
    inverse_categories, \* argument inverse_categories
    budget,             \* argument budget
    means,              \* local means
    stdevs,             \* local stdevs
    z_totals,           \* local z_totals
    positive_total,     \* local positive_total
    pc,                 \* "call", "returned" or "raised"
    \* insert_data
    tables,           \* the tables of the connection: name -> list of rows
    last_load,        \* history: tag -> the records of the last call with that tag
    last_call         \* history: how the last call ended

parserVars == <<rows, current_section, headers, sections, origin, last_kind>>

priceVars ==
    <<records, categories, inverse_categories, budget, means, stdevs,
      z_totals, positive_total, pc>>

dbVars == <<tables, last_load, last_call>>

vars == <<parserVars, priceVars, dbVars>>

-----------------------------------------------------------------------------
(* Text *)

Whitespace == {" "}

RECURSIVE LStrip(_)
LStrip(s) ==
    IF s # <<>> /\ Head(s) \in Whitespace THEN LStrip(Tail(s)) ELSE s

RECURSIVE RStrip(_)
RStrip(s) ==
    IF s # <<>> /\ s[Len(s)] \in Whitespace
    THEN RStrip(SubSeq(s, 1, Len(s) - 1))
    ELSE s

\* str.strip()
Strip(s) == RStrip(LStrip(s))

\* str.lower(), on the letters the labels are written with
LowerChar(ch) ==
    CASE ch = "H" -> "h"
      [] ch = "P" -> "p"
      [] ch = "I" -> "i"
      [] ch = "D" -> "d"
      [] ch = "R" -> "r"
      [] OTHER -> ch

Lower(s) == [k \in 1..Len(s) |-> LowerChar(s[k])]

Hitting == <<"H", "i", "t", "t", "i", "n", "g">>
Pitching == <<"P", "i", "t", "c", "h", "i", "n", "g">>

SectionLabels == {Hitting, Pitching}

\* None: like the empty text it is false in `if current_section:`, and no
\* lowered label equals it
None == <<>>

-----------------------------------------------------------------------------
(* The state before anything has run.  Each specification below runs one   *)
(* function of the program and leaves the variables of the others here.    *)

\* {} as a dict
EmptyMap == [k \in {} |-> <<>>]

\* map[key] = value
Put(map, key, value) ==
    [k \in DOMAIN map \cup {key} |-> IF k = key THEN value ELSE map[k]]

ParserIdle ==
    /\ rows = <<>>
    /\ current_section = None
    /\ headers = <<>>
    /\ sections = EmptyMap
    /\ origin = EmptyMap
    /\ last_kind = "none"

PriceIdle ==
    /\ records = <<>>
    /\ categories = <<>>
    /\ inverse_categories = {}
    /\ budget = [n |-> 0, d |-> 1]
    /\ means = EmptyMap
    /\ stdevs = EmptyMap
    /\ z_totals = <<>>
    /\ positive_total = <<>>
    /\ pc = "idle"

DbIdle ==
    /\ tables = EmptyMap
    /\ last_load = EmptyMap
    /\ last_call = "none"

-----------------------------------------------------------------------------
(* Numbers.  A Python float is modelled by its exact value: a rational, or  *)
(* nan, or inf.  Rounding to 53 bits is not modelled, so an equality below  *)
(* is the equality the contract calls "within floating-point tolerance".    *)

Abs(x) == IF x < 0 THEN -x ELSE x

RECURSIVE GCD(_, _)
GCD(a, b) == IF b = 0 THEN a ELSE GCD(b, a % b)

\* the rational n/d in lowest terms, d > 0
Rat(n, d) ==
    LET g == GCD(Abs(n), Abs(d))
        s == IF d < 0 THEN -1 ELSE 1
    IN [n |-> s * (n \div g), d |-> s * (d \div g)]

RZero == Rat(0, 1)
ROne == Rat(1, 1)
RAdd(x, y) == Rat(x.n * y.d + y.n * x.d, x.d * y.d)
RSub(x, y) == Rat(x.n * y.d - y.n * x.d, x.d * y.d)
RMul(x, y) == Rat(x.n * y.n, x.d * y.d)
RDiv(x, y) == Rat(x.n * y.d, x.d * y.n)
RNeg(x) == [n |-> -x.n, d |-> x.d]
RSign(x) == IF x.n > 0 THEN 1 ELSE IF x.n < 0 THEN -1 ELSE 0

\* a float: kind "num" with its value, or "nan", or "inf"
FNum(r) == [k |-> "num", v |-> r]
FNaN == [k |-> "nan", v |-> RZero]
FInf == [k |-> "inf", v |-> RZero]
FZero == FNum(RZero)

Digits == {"0", "1", "2", "3", "4", "5", "6", "7", "8", "9"}

DigitVal(ch) ==
    CASE ch = "0" -> 0 [] ch = "1" -> 1 [] ch = "2" -> 2 [] ch = "3" -> 3
      [] ch = "4" -> 4 [] ch = "5" -> 5 [] ch = "6" -> 6 [] ch = "7" -> 7
      [] ch = "8" -> 8 [] ch = "9" -> 9

RECURSIVE DigitsValue(_)
DigitsValue(s) ==
    IF s = <<>> THEN 0
    ELSE 10 * DigitsValue(SubSeq(s, 1, Len(s) - 1)) + DigitVal(s[Len(s)])

RECURSIVE Pow10(_)
Pow10(k) == IF k = 0 THEN 1 ELSE 10 * Pow10(k - 1)

\* float(s) for a stripped, non-empty s written with digits, at most one
\* point, or the words nan and inf; anything else is a ValueError.
\* (Signs, exponents and underscores are outside the texts of the model.)
ParseFloat(s) ==
    LET points == {k \in 1..Len(s) : s[k] = "."}
        digits == SelectSeq(s, LAMBDA ch : ch # ".")
    IN IF s = <<"n", "a", "n">> THEN FNaN
       ELSE IF s = <<"i", "n", "f">> THEN FInf
       ELSE IF /\ Cardinality(points) <= 1
               /\ digits # <<>>
               /\ \A k \in 1..Len(digits) : digits[k] \in Digits
            THEN LET p == IF points = {} THEN Len(s)
                          ELSE (CHOOSE k \in points : TRUE)
                     frac == Len(s) - p
                 IN FNum(Rat(DigitsValue(digits), Pow10(frac)))
            ELSE [k |-> "error", v |-> RZero]

\* str.replace(",", "")
RemoveCommas(s) == SelectSeq(s, LAMBDA ch : ch # ",")

\* str(0.0) and str(None), the defaults of record.get
Str00 == <<"0", ".", "0">>
StrNone == <<"N", "o", "n", "e">>

\* to_float: float(str(value).replace(",", "").strip() or 0.0), and 0.0 on
\* TypeError and ValueError.  float accepts "nan" and "inf".
to_float(value) ==
    LET s == Strip(RemoveCommas(value)) IN
    IF s = <<>> THEN FZero
    ELSE LET f == ParseFloat(s) IN IF f.k = "error" THEN FZero ELSE f

\* int(x) of a finite float truncates toward zero
Trunc(r) == IF r.n >= 0 THEN r.n \div r.d ELSE -((-r.n) \div r.d)

\* to_int: int(float(...)), and 0 on TypeError and ValueError.  int(nan) is a
\* ValueError; int(inf) is an OverflowError, which the except clause does not
\* name, so it leaves to_int.
to_int(value) ==
    LET s == Strip(RemoveCommas(value)) IN
    IF s = <<>> THEN [raised |-> FALSE, v |-> 0]
    ELSE LET f == ParseFloat(s) IN
         CASE f.k = "num" -> [raised |-> FALSE, v |-> Trunc(f.v)]
           [] f.k = "inf" -> [raised |-> TRUE, v |-> 0]
           [] OTHER -> [raised |-> FALSE, v |-> 0]

\* dict.get(key, default)
Get(record, key, default) ==
    IF key \in DOMAIN record THEN record[key] ELSE default

-----------------------------------------------------------------------------
(* compute_prices *)

\* The category names of the model: one scored as it is, one that callers
\* pass as inverse.
CatA == "R"
CatB == "ERA"
Cats == {CatA, CatB}

(* A z-score is a difference divided by a standard deviation, which is a    *)
(* square root.  A sum of z-scores is kept exactly as                       *)
(*     q + c[CatA] / stdevs[CatA] + c[CatB] / stdevs[CatB]                  *)
(* with rational q and c, and a standard deviation is kept as its square.   *)
(* nan marks a float that is nan.                                           *)

Real(q, c) == [nan |-> FALSE, q |-> q, c |-> c]
NoCoef == [cat \in Cats |-> RZero]
RealOf(r) == Real(r, NoCoef)
RealZero == RealOf(RZero)
RealOne == RealOf(ROne)
RealNaN == [nan |-> TRUE, q |-> RZero, c |-> NoCoef]

RealAdd(x, y) ==
    IF x.nan \/ y.nan THEN RealNaN
    ELSE Real(RAdd(x.q, y.q), [cat \in Cats |-> RAdd(x.c[cat], y.c[cat])])

RealScale(x, r) ==
    IF x.nan THEN RealNaN
    ELSE Real(RMul(x.q, r), [cat \in Cats |-> RMul(x.c[cat], r)])

RealSub(x, y) == RealAdd(x, RealScale(y, Rat(-1, 1)))

\* a standard deviation: the square root of var, or nan
Sd(var) == [nan |-> FALSE, var |-> var]
SdNaN == [nan |-> TRUE, var |-> ROne]

VarOf(sd, cat) == IF cat \in DOMAIN sd THEN sd[cat].var ELSE ROne

\* the sign of a / sqrt(va) + b / sqrt(vb), for va, vb > 0
Sign2(a, va, b, vb) ==
    LET sa == RSign(a)
        sb == RSign(b)
    IN IF sa >= 0 /\ sb >= 0 THEN (IF sa = 0 /\ sb = 0 THEN 0 ELSE 1)
       ELSE IF sa <= 0 /\ sb <= 0 THEN -1
       ELSE LET d == RSign(RSub(RDiv(RMul(a, a), va), RDiv(RMul(b, b), vb)))
            IN IF d = 0 THEN 0 ELSE IF d > 0 THEN sa ELSE sb

\* the sign of the finite x, under the standard deviations sd
Sign(x, sd) ==
    LET a == x.c[CatA]
        b == x.c[CatB]
        va == VarOf(sd, CatA)
        vb == VarOf(sd, CatB)
        s == Sign2(a, va, b, vb)
        sq == RSign(x.q)
    IN IF sq = 0 THEN s
       ELSE IF s = 0 \/ s = sq THEN sq
       ELSE \* opposite signs: compare (a/sqrt(va) + b/sqrt(vb))^2 with q^2
            LET r == RSub(RAdd(RDiv(RMul(a, a), va), RDiv(RMul(b, b), vb)),
                          RMul(x.q, x.q))
                d == Sign2(r, ROne, RMul(Rat(2, 1), RMul(a, b)), RMul(va, vb))
            IN IF d = 0 THEN 0 ELSE IF d > 0 THEN s ELSE sq

\* the number of times cat stands in the list cats
Occurrences(cats, cat) == Cardinality({j \in 1..Len(cats) : cats[j] = cat})

\* category_values[cat]: one value per record and per occurrence of cat in
\* categories (the dict has one list per name, the loops append to it once
\* per occurrence)
CategoryValues(recs, cats, cat) ==
    LET occ == Occurrences(cats, cat) IN
    [k \in 1..(Len(recs) * occ) |->
        to_float(Get(recs[((k - 1) \div occ) + 1], cat, Str00))]

AllFinite(vals) == \A k \in 1..Len(vals) : vals[k].k = "num"

RECURSIVE RSum(_)
RSum(vals) == IF vals = <<>> THEN RZero ELSE RAdd(Head(vals).v, RSum(Tail(vals)))

\* statistics.mean: nan if a value is nan, else inf if a value is inf
Mean(vals) ==
    IF \E k \in 1..Len(vals) : vals[k].k = "nan" THEN FNaN
    ELSE IF \E k \in 1..Len(vals) : vals[k].k = "inf" THEN FInf
    ELSE FNum(RDiv(RSum(vals), Rat(Len(vals), 1)))

\* safe_mean
safe_mean(vals) == IF vals # <<>> THEN Mean(vals) ELSE FZero

RECURSIVE SumSq(_, _)
SumSq(vals, m) ==
    IF vals = <<>> THEN RZero
    ELSE LET dev == RSub(Head(vals).v, m)
         IN RAdd(RMul(dev, dev), SumSq(Tail(vals), m))

\* the square of statistics.stdev: the sample variance
Variance(vals) == RDiv(SumSq(vals, Mean(vals).v), Rat(Len(vals) - 1, 1))

\* statistics.stdev of two or more values of which one is nan or inf: up to
\* Python 3.10 it returns nan; from 3.11 on it raises AttributeError, which
\* safe_stdev does not catch.
StdevRaises(vals) == Len(vals) >= 2 /\ ~AllFinite(vals)

\* safe_stdev, when it returns
safe_stdev(vals) ==
    IF Len(vals) < 2 THEN Sd(ROne)
    ELSE IF ~AllFinite(vals) THEN SdNaN
    ELSE LET var == Variance(vals) IN IF var.n # 0 THEN Sd(var) ELSE Sd(ROne)

CategoryKeys(cats) == {cats[j] : j \in 1..Len(cats)}

Means(recs, cats) ==
    [cat \in CategoryKeys(cats) |-> safe_mean(CategoryValues(recs, cats, cat))]

Stdevs(recs, cats) ==
    [cat \in CategoryKeys(cats) |-> safe_stdev(CategoryValues(recs, cats, cat))]

\* z = (val - means[cat]) / stdevs[cat]
ZScore(val, mean, sd, cat) ==
    IF val.k # "num" \/ mean.k # "num" \/ sd.nan THEN RealNaN
    ELSE Real(RZero, [x \in Cats |->
                        IF x = cat THEN RSub(val.v, mean.v) ELSE RZero])

\* a slip: the z-score of an inverse category is not negated
SignedZ_NoInverse(record, cat, inv, mn, sd) ==
    ZScore(to_float(Get(record, cat, Str00)), mn[cat], sd[cat], cat)

\* the z of one category, negated for an inverse category
SignedZ(record, cat, inv, mn, sd) ==
    LET z == ZScore(to_float(Get(record, cat, Str00)), mn[cat], sd[cat], cat)
    IN IF cat \in inv THEN RealScale(z, Rat(-1, 1)) ELSE z

\* z_sum of one record: the inner loop over categories
RECURSIVE ZSum(_, _, _, _, _)
ZSum(record, cats, inv, mn, sd) ==
    IF cats = <<>> THEN RealZero
    ELSE RealAdd(ZSum(record, SubSeq(cats, 1, Len(cats) - 1), inv, mn, sd),
                 SignedZ(record, cats[Len(cats)], inv, mn, sd))

ZTotals(recs, cats, inv, mn, sd) ==
    [i \in 1..Len(recs) |-> ZSum(recs[i], cats, inv, mn, sd)]

\* a slip: the clamp is at 1.0, the literal of the line above
Max0_ClampAtOne(z, sd) ==
    IF z.nan THEN z
    ELSE IF Sign(RealSub(z, RealOne), sd) < 0 THEN RealOne ELSE z

\* max(z, 0.0): z unless 0.0 > z; a nan z is returned as it is
Max0(z, sd) ==
    IF z.nan THEN z
    ELSE IF Sign(z, sd) < 0 THEN RealZero ELSE z

RECURSIVE SumMax0(_, _)
SumMax0(zs, sd) ==
    IF zs = <<>> THEN RealZero
    ELSE RealAdd(SumMax0(SubSeq(zs, 1, Len(zs) - 1), sd), Max0(zs[Len(zs)], sd))

\* a slip: every z_sum is summed, the negative ones too
PositiveTotal_NoClamp(zs, sd) ==
    LET RECURSIVE Total(_)
        Total(s) == IF s = <<>> THEN RealZero
                    ELSE RealAdd(Total(Tail(s)), Head(s))
        total == Total(zs)
    IN IF ~total.nan /\ Sign(total, sd) = 0 THEN RealOne ELSE total

\* sum(max(z, 0.0) for z in z_totals) or 1.0; nan is true
PositiveTotal(zs, sd) ==
    LET total == SumMax0(zs, sd)
    IN IF ~total.nan /\ Sign(total, sd) = 0 THEN RealOne ELSE total

\* a price: num / den * mul, or nan
Price(num, den, mul) ==
    [nan |-> num.nan \/ den.nan, num |-> num, den |-> den, mul |-> mul]

\* a slip: the z_sum is not clamped at 0.0
PriceOf_NoClamp(z, total, b, sd) == Price(z, total, b)

\* max(z_sum, 0.0) / positive_total * budget
PriceOf(z, total, b, sd) == Price(Max0(z, sd), total, b)

\* record["_price"] = ...
WithPrice(record, price) ==
    [key \in DOMAIN record \cup {"_price"} |->
        IF key = "_price" THEN price ELSE record[key]]

\* The records: the CatA cell is a text that does not parse (0.0), 2 or
\* 1,0 (10.0); the CatB cell is missing (0.0) or "3 "; and one record with a
\* nan cell and one with an inf cell.
CellsA == {<<"x">>, <<"2">>, <<"1", ",", "0">>}

PriceRecords ==
    {[cat \in {CatA} |-> a] : a \in CellsA}
    \cup {[cat \in Cats |-> IF cat = CatA THEN a ELSE <<"3", " ">>] : a \in CellsA}
    \cup {[cat \in Cats |-> IF cat = CatA THEN <<"n", "a", "n">> ELSE <<"3", " ">>],
          [cat \in Cats |-> IF cat = CatA THEN <<"2">> ELSE <<"i", "n", "f">>]}

CategoryLists == {<<CatA>>, <<CatA, CatB>>, <<CatB, CatA, CatB>>}

Budgets == {Rat(0, 1), Rat(5, 1)}

MaxRecords == 3

RecordLists == UNION {[1..n -> PriceRecords] : n \in 0..MaxRecords}

PriceInit ==
    /\ ParserIdle
    /\ DbIdle
    /\ records \in RecordLists
    /\ categories \in CategoryLists
    /\ inverse_categories \in SUBSET CategoryKeys(categories)
    /\ budget \in Budgets
    /\ means = EmptyMap
    /\ stdevs = EmptyMap
    /\ z_totals = <<>>
    /\ positive_total = RealZero
    /\ pc = "call"

\* lines 128-134: the values, means and standard deviations per category
CollectStatistics ==
    /\ pc = "call"
    /\ means' = Means(records, categories)
    /\ stdevs' = Stdevs(records, categories)
    /\ pc' = "statistics"
    /\ UNCHANGED <<records, categories, inverse_categories, budget,
                   z_totals, positive_total>>
    /\ UNCHANGED <<parserVars, dbVars>>

\* line 134 is left by the AttributeError of statistics.stdev; no record
\* has been written to
StatisticsRaise ==
    /\ pc = "call"
    /\ \E cat \in CategoryKeys(categories) :
        StdevRaises(CategoryValues(records, categories, cat))
    /\ means' = Means(records, categories)
    /\ pc' = "raised"
    /\ UNCHANGED <<records, categories, inverse_categories, budget, stdevs,
                   z_totals, positive_total>>
    /\ UNCHANGED <<parserVars, dbVars>>

\* lines 136-145: the z_sum of every record
ScoreRecords ==
    /\ pc = "statistics"
    /\ z_totals' = ZTotals(records, categories, inverse_categories, means, stdevs)
    /\ pc' = "scored"
    /\ UNCHANGED <<records, categories, inverse_categories, budget, means,
                   stdevs, positive_total>>
    /\ UNCHANGED <<parserVars, dbVars>>

\* lines 147-149: the denominator and the price of every record
AssignPrices ==
    /\ pc = "scored"
    /\ positive_total' = PositiveTotal(z_totals, stdevs)
    /\ records' = [i \in 1..Len(records) |->
                    WithPrice(records[i],
                              PriceOf(z_totals[i], positive_total', budget, stdevs))]
    /\ pc' = "returned"
    /\ UNCHANGED <<categories, inverse_categories, budget, means, stdevs, z_totals>>
    /\ UNCHANGED <<parserVars, dbVars>>

PriceNext ==
    \/ CollectStatistics
    \/ StatisticsRaise
    \/ ScoreRecords
    \/ AssignPrices

PriceSpec == PriceInit /\ [][PriceNext]_vars

-----------------------------------------------------------------------------
(* insert_data *)

\* the columns after source_team: the key read from the record and how the
\* value is converted
HitterColumns ==
    << <<"ID", "text">>, <<"Pos", "text">>, <<"Player", "text">>,
       <<"Team", "text">>, <<"Eligible", "text">>, <<"Status", "text">>,
       <<"Age", "int">>, <<"Opponent", "text">>, <<"Salary", "int">>,
       <<"Contract", "text">>, <<"AB", "int">>, <<"H", "int">>,
       <<"R", "int">>, <<"HR", "int">>, <<"RBI", "int">>, <<"SB", "int">>,
       <<"AVG", "float">>, <<"GP", "int">>, <<"_price", "price">> >>

PitcherColumns ==
    << <<"ID", "text">>, <<"Pos", "text">>, <<"Player", "text">>,
       <<"Team", "text">>, <<"Eligible", "text">>, <<"Status", "text">>,
       <<"Age", "int">>, <<"Opponent", "text">>, <<"Salary", "int">>,
       <<"Contract", "text">>, <<"IP", "float">>, <<"W", "int">>,
       <<"SV", "int">>, <<"K", "int">>, <<"ERA", "float">>,
       <<"WHIP", "float">>, <<"H", "int">>, <<"AB", "int">>, <<"R", "int">>,
       <<"RBI", "int">>, <<"HR", "int">>, <<"SB", "int">>,
       <<"AVG", "float">>, <<"GP", "int">>, <<"_price", "price">> >>

\* one element of the row tuple.  '_price' holds a float, and
\* float(str(x)) is x for every float.
ColumnValue(record, col) ==
    CASE col[2] = "text" -> Get(record, col[1], <<>>)
      [] col[2] = "int" -> to_int(Get(record, col[1], StrNone)).v
      [] col[2] = "float" -> to_float(Get(record, col[1], StrNone))
      [] col[2] = "price" -> Get(record, "_price", FZero)

\* the row tuple of one record
RowOf(team, record, cols) ==
    <<team>> \o [k \in 1..Len(cols) |-> ColumnValue(record, cols[k])]

\* building the row tuple is left by the OverflowError of to_int
RowRaises(record, cols) ==
    \E k \in 1..Len(cols) :
        /\ cols[k][2] = "int"
        /\ to_int(Get(record, cols[k][1], StrNone)).raised

\* ensure_tables: CREATE TABLE IF NOT EXISTS
ensure_tables(t) ==
    [name \in {"hitters", "pitchers"} |->
        IF name \in DOMAIN t THEN t[name] ELSE <<>>]

\* DELETE FROM name WHERE source_team = team
DeleteFrom(t, name, team) ==
    [t EXCEPT ![name] = SelectSeq(t[name], LAMBDA row : row[1] # team)]

\* executemany(INSERT INTO name VALUES ...)
InsertInto(t, name, newRows) == [t EXCEPT ![name] = t[name] \o newRows]

\* lines 219-222
Deleted(t, team) ==
    DeleteFrom(DeleteFrom(ensure_tables(t), "hitters", team), "pitchers", team)

Teams == {"bees", "ants"}

DbRecords ==
    { [key \in {"ID", "Age"} |->
          IF key = "ID" THEN <<"7">> ELSE <<"3", "1">>],
      [key \in {"ID", "Age", "_price"} |->
          CASE key = "ID" -> <<"8">>
            [] key = "Age" -> <<"i", "n", "f">>
            [] key = "_price" -> FNum(Rat(5, 1))] }

MaxLoad == 2

Loads == UNION {[1..n -> DbRecords] : n \in 0..MaxLoad}

DbInit ==
    /\ ParserIdle
    /\ PriceIdle
    /\ tables = EmptyMap
    /\ last_load = EmptyMap
    /\ last_call = "none"

\* insert_data runs to its end
InsertData ==
    \E team \in Teams, hitters \in Loads, pitchers \in Loads :
        /\ \A k \in 1..Len(hitters) : ~RowRaises(hitters[k], HitterColumns)
        /\ \A k \in 1..Len(pitchers) : ~RowRaises(pitchers[k], PitcherColumns)
        /\ tables' =
            InsertInto(
                InsertInto(Deleted(tables, team), "hitters",
                    [k \in 1..Len(hitters) |->
                        RowOf(team, hitters[k], HitterColumns)]),
                "pitchers",
                [k \in 1..Len(pitchers) |->
                    RowOf(team, pitchers[k], PitcherColumns)])
        /\ last_load' = Put(last_load, team,
                            [hitters |-> hitters, pitchers |-> pitchers])
        /\ last_call' = "returned"
        /\ UNCHANGED <<parserVars, priceVars>>

\* insert_data is left by the OverflowError of to_int while the row tuples
\* are built: the two DELETE statements have run, no INSERT has
InsertDataRaises ==
    \E team \in Teams, hitters \in Loads, pitchers \in Loads :
        /\ \/ \E k \in 1..Len(hitters) : RowRaises(hitters[k], HitterColumns)
           \/ \E k \in 1..Len(pitchers) : RowRaises(pitchers[k], PitcherColumns)
        /\ tables' = Deleted(tables, team)
        /\ last_load' = Put(last_load, team,
                            [hitters |-> hitters, pitchers |-> pitchers])
        /\ last_call' = "raised"
        /\ UNCHANGED <<parserVars, priceVars>>

DbNext ==
    \/ InsertData
    \/ InsertDataRaises

DbSpec == DbInit /\ [][DbNext]_vars

-----------------------------------------------------------------------------
(* read_sections *)

\* a slip: only a row without cells counts as blank
IsBlankRow_NoCells(row) == Len(row) = 0

\* not any(cell.strip() for cell in row)
IsBlankRow(row) == \A k \in 1..Len(row) : Strip(row[k]) = <<>>

\* a slip: the label is read from the first cell
RowLabel_FirstCell(row) == IF Len(row) > 0 THEN Strip(row[1]) ELSE <<>>

\* row[1].strip() if len(row) > 1 else ""
RowLabel(row) == IF Len(row) > 1 THEN Strip(row[2]) ELSE <<>>

\* the dict comprehension of the record: a later duplicate header wins
MakeRecord(hdrs, row) ==
    [name \in {hdrs[k] : k \in 1..Len(hdrs)} |->
        LET last == CHOOSE k \in 1..Len(hdrs) :
                        /\ hdrs[k] = name
                        /\ \A m \in (k + 1)..Len(hdrs) : hdrs[m] # name
        IN IF last <= Len(row) THEN Strip(row[last]) ELSE <<>>]

\* The branch of the loop body that a row takes.
RowKind(cur, hdrs, row) ==
    IF IsBlankRow(row) THEN "blank"
    ELSE IF RowLabel(row) \in SectionLabels THEN "sentinel"
    ELSE IF cur = None THEN "ignored"
    ELSE IF hdrs = <<>> THEN "header"
    ELSE "record"

\* a slip: the header keeps the list a label already has (setdefault)
ProcessRow_KeepList(st, row) ==
    LET kind == RowKind(st.current_section, st.headers, row) IN
    CASE kind = "sentinel" ->
            [st EXCEPT !.current_section = Lower(RowLabel(row)),
                       !.headers = <<>>]
      [] kind = "header" ->
            [st EXCEPT !.headers = [k \in 1..Len(row) |-> Strip(row[k])],
                       !.sections =
                            IF st.current_section \in DOMAIN st.sections
                            THEN st.sections
                            ELSE Put(st.sections, st.current_section, <<>>)]
      [] kind = "record" ->
            [st EXCEPT !.sections =
                Put(st.sections, st.current_section,
                    Append(st.sections[st.current_section],
                           MakeRecord(st.headers, row)))]
      [] OTHER -> st

\* One iteration of the loop over the reader.
ProcessRow(st, row) ==
    LET kind == RowKind(st.current_section, st.headers, row) IN
    CASE kind = "sentinel" ->
            [st EXCEPT !.current_section = Lower(RowLabel(row)),
                       !.headers = <<>>]
      [] kind = "header" ->
            [st EXCEPT !.headers = [k \in 1..Len(row) |-> Strip(row[k])],
                       !.sections = Put(st.sections, st.current_section, <<>>)]
      [] kind = "record" ->
            [st EXCEPT !.sections =
                Put(st.sections, st.current_section,
                    Append(st.sections[st.current_section],
                           MakeRecord(st.headers, row)))]
      [] OTHER -> st

ParserStart ==
    [current_section |-> None, headers |-> <<>>, sections |-> EmptyMap]

RECURSIVE ParseFrom(_, _)
ParseFrom(st, rs) ==
    IF rs = <<>> THEN st ELSE ParseFrom(ProcessRow(st, Head(rs)), Tail(rs))

\* read_sections, on the rows of the file
read_sections(rs) == ParseFrom(ParserStart, rs).sections

\* The rows a file is written with.
ParserRows ==
    { <<>>,                                                  \* blank: no cell
      << <<" ">>, <<>> >>,                                   \* blank
      << <<>>, Hitting >>,                                   \* sentinel
      << <<"x">>, <<" ">> \o Pitching \o <<" ">>, <<>> >>,   \* sentinel, padded
      << <<"I", "D">>, <<" ", "R">> >>,
      << <<"1">>, <<"5", " ">>, <<"9">> >>,
      << Hitting >> }                                        \* label in cell 0

MaxRows == 5

ParserInit ==
    /\ ParserIdle
    /\ PriceIdle
    /\ DbIdle

\* The loop body runs on the next row of the reader, in the branch `kind`.
ReadRow(kind) ==
    /\ Len(rows) < MaxRows
    /\ \E row \in ParserRows :
        /\ RowKind(current_section, headers, row) = kind
        /\ LET st == ProcessRow([current_section |-> current_section,
                                 headers |-> headers,
                                 sections |-> sections], row)
           IN /\ rows' = Append(rows, row)
              /\ current_section' = st.current_section
              /\ headers' = st.headers
              /\ sections' = st.sections
              /\ origin' =
                    CASE kind = "header" -> Put(origin, current_section, <<>>)
                      [] kind = "record" ->
                            Put(origin, current_section,
                                Append(origin[current_section], Len(rows) + 1))
                      [] OTHER -> origin
              /\ last_kind' = kind
    /\ UNCHANGED <<priceVars, dbVars>>

SkipBlankRow == ReadRow("blank")
SentinelRow == ReadRow("sentinel")
IgnoreRow == ReadRow("ignored")
CaptureHeader == ReadRow("header")
AppendRecord == ReadRow("record")

ParserNext ==
    \/ SkipBlankRow
    \/ SentinelRow
    \/ IgnoreRow
    \/ CaptureHeader
    \/ AppendRecord

ParserSpec == ParserInit /\ [][ParserNext]_vars

-----------------------------------------------------------------------------
(* The parser's claims.  The row classes are stated here as the contract   *)
(* words them, apart from the definitions the loop is modelled with.       *)

BlankRow(row) == \A k \in 1..Len(row) : Strip(row[k]) = <<>>

SentinelLabelOf(row) == Strip(row[2])

IsSentinelRow(row) ==
    /\ Len(row) >= 2
    /\ SentinelLabelOf(row) \in {Hitting, Pitching}

\* the sentinel row that governs row j: the last sentinel before it
SentinelBefore(j) ==
    LET S == {i \in 1..(j - 1) : IsSentinelRow(rows[i])} IN
    IF S = {} THEN 0 ELSE CHOOSE i \in S : \A m \in S : m <= i

\* row j is the first non-blank row after a sentinel row
FirstAfterSentinel(j) ==
    /\ ~BlankRow(rows[j])
    /\ \E i \in 1..(j - 1) :
        /\ IsSentinelRow(rows[i])
        /\ \A m \in (i + 1)..(j - 1) : BlankRow(rows[m])

\* the rows captured as a header of the section `name`
HeaderRows(name) ==
    {j \in 1..Len(rows) :
        /\ FirstAfterSentinel(j)
        /\ ~IsSentinelRow(rows[j])
        /\ Lower(SentinelLabelOf(rows[SentinelBefore(j)])) = name}

\* the data rows that follow the header row h up to the next sentinel row
DataRowsAfter(h) ==
    {k \in (h + 1)..Len(rows) :
        /\ ~BlankRow(rows[k])
        /\ \A m \in (h + 1)..k : ~IsSentinelRow(rows[m])}

RECURSIVE Ascending(_)
Ascending(S) ==
    IF S = {} THEN <<>>
    ELSE LET lo == CHOOSE x \in S : \A y \in S : x <= y
         IN <<lo>> \o Ascending(S \ {lo})

StripCells(row) == [k \in 1..Len(row) |-> Strip(row[k])]

NonBlank(rs) == SelectSeq(rs, LAMBDA row : ~BlankRow(row))

\* C8: after any rows, the parser's section, header and mapping are those it
\* has after the same rows with the blank rows removed.
C8_BlankRowsIgnored ==
    [current_section |-> current_section, headers |-> headers,
     sections |-> sections] = ParseFrom(ParserStart, NonBlank(rows))

C8_Witness ==
    /\ \E j \in 2..(Len(rows) - 1) :
        /\ BlankRow(rows[j])
        /\ IsSentinelRow(rows[j - 1])
        /\ j + 1 \in HeaderRows(current_section)
    /\ \E name \in DOMAIN sections : sections[name] # <<>>

\* C10: for each label, the mapping holds exactly the data rows after the
\* last header captured for that label (no key when no header was captured
\* for it); capturing a header leaves the label's list empty; and a sentinel
\* row by itself leaves the mapping as it was.
C10_LastHeaderWins ==
    /\ \A name \in {Lower(Hitting), Lower(Pitching)} :
        LET H == HeaderRows(name) IN
        IF H = {} THEN name \notin DOMAIN sections
        ELSE LET h == CHOOSE x \in H : \A y \in H : y <= x
                 data == Ascending(DataRowsAfter(h))
             IN /\ name \in DOMAIN sections
                /\ sections[name] =
                      [n \in 1..Len(data) |->
                          MakeRecord(StripCells(rows[h]), rows[data[n]])]
    /\ last_kind = "header" => sections[current_section] = <<>>
    /\ (rows # <<>> /\ IsSentinelRow(rows[Len(rows)])) =>
            sections = read_sections(SubSeq(rows, 1, Len(rows) - 1))

C10_Witness ==
    \E name \in DOMAIN sections :
        \E h1, h2 \in HeaderRows(name) :
            /\ h1 < h2
            /\ \E k \in DataRowsAfter(h1) : k < h2
            /\ Len(sections[name]) < Cardinality(DataRowsAfter(h1))
                                        + Cardinality(DataRowsAfter(h2))

-----------------------------------------------------------------------------
(* The claims about compute_prices, on the state in which it has returned. *)

Returned == pc = "returned"

PriceAt(i) == records[i]["_price"]

ScoreAt(i) == z_totals[i]

\* the aggregate score of record i is a number and is > 0, = 0, < 0
ScorePositive(i) == ~ScoreAt(i).nan /\ Sign(ScoreAt(i), stdevs) > 0
ScoreZero(i) == ~ScoreAt(i).nan /\ Sign(ScoreAt(i), stdevs) = 0
ScoreNegative(i) == ~ScoreAt(i).nan /\ Sign(ScoreAt(i), stdevs) < 0

\* the sign of the price num / den * mul
PriceSign(p) == Sign(p.num, stdevs) * Sign(p.den, stdevs) * RSign(p.mul)

PricePositive(i) == ~PriceAt(i).nan /\ PriceSign(PriceAt(i)) > 0
PriceZero(i) == ~PriceAt(i).nan /\ PriceSign(PriceAt(i)) = 0
PriceNonNegative(i) == ~PriceAt(i).nan /\ PriceSign(PriceAt(i)) >= 0

\* every price is a quotient by the same denominator
SameDenominator ==
    \A i \in 1..Len(records) : PriceAt(i).den = positive_total

RECURSIVE SumNumerators(_)
SumNumerators(k) ==
    IF k = 0 THEN RealZero
    ELSE RealAdd(SumNumerators(k - 1),
                 RealScale(PriceAt(k).num, PriceAt(k).mul))

SumIsNaN == \E i \in 1..Len(records) : PriceAt(i).nan

\* the sign of (sum of the prices) - budget, the prices being quotients by
\* positive_total: the sign of (sum of num * mul) - budget * positive_total,
\* times the sign of positive_total
SumMinusBudget ==
    Sign(RealSub(SumNumerators(Len(records)),
                 RealScale(positive_total, budget)), stdevs)
    * Sign(positive_total, stdevs)

SumExceedsBudget == ~SumIsNaN /\ SumMinusBudget > 0
SumEqualsBudget == ~SumIsNaN /\ SumMinusBudget = 0

\* C1: when compute_prices has returned, the sum of the prices does not
\* exceed budget.
C1_SumWithinBudget ==
    Returned => (SameDenominator /\ ~SumExceedsBudget)

C1_Witness ==
    /\ Returned
    /\ Len(records) >= 3
    /\ RSign(budget) > 0
    /\ Cardinality({i \in 1..Len(records) : PricePositive(i)}) >= 2
    /\ \E i \in 1..Len(records) : ScoreNegative(i)

\* C2: when a record has a strictly positive aggregate score, the sum of the
\* prices equals budget.
C2_SumEqualsBudget ==
    (Returned /\ \E i \in 1..Len(records) : ScorePositive(i))
        => (SameDenominator /\ SumEqualsBudget)

C2_Witness ==
    /\ Returned
    /\ RSign(budget) > 0
    /\ Cardinality(CategoryKeys(categories)) = 2
    /\ Cardinality({i \in 1..Len(records) : ScorePositive(i)}) >= 2
    /\ SumEqualsBudget

AllScoresZero == \A i \in 1..Len(records) : ScoreZero(i)

\* C3 as stated: the sum equals budget only if every score is non-negative
\* and one is positive; and if all scores are zero every price is zero.
C3_Original ==
    Returned =>
        /\ SumEqualsBudget =>
            /\ \A i \in 1..Len(records) : ScorePositive(i) \/ ScoreZero(i)
            /\ \E i \in 1..Len(records) : ScorePositive(i)
        /\ AllScoresZero => \A i \in 1..Len(records) : PriceZero(i)

\* C3 as amended: the sum equals budget only if a record has a positive
\* score or budget is 0; and if all scores are zero every price is zero.
C3_Amended ==
    Returned =>
        /\ SameDenominator
        /\ SumEqualsBudget =>
            \/ \E i \in 1..Len(records) : ScorePositive(i)
            \/ RSign(budget) = 0
        /\ AllScoresZero => \A i \in 1..Len(records) : PriceZero(i)

C3_Witness ==
    /\ Returned
    /\ RSign(budget) > 0
    /\ SumEqualsBudget
    /\ \E i \in 1..Len(records) : ScoreNegative(i)
    /\ \E i \in 1..Len(records) : ScorePositive(i)

\* C4: every price is non-negative, and a record whose score is <= 0 has
\* the price 0.
C4_NonNegativeAndZero ==
    Returned =>
        \A i \in 1..Len(records) :
            /\ PriceNonNegative(i)
            /\ (ScoreNegative(i) \/ ScoreZero(i)) => PriceZero(i)

\* the value of record i in cat, as compute_prices reads it
ValueAt(i, cat) == to_float(Get(records[i], cat, Str00))

\* the mean of the values of cat is a number
FiniteMean(cat) == \A k \in 1..Len(records) : ValueAt(k, cat).k = "num"

RECURSIVE SumValues(_, _)
SumValues(k, cat) ==
    IF k = 0 THEN RZero ELSE RAdd(SumValues(k - 1, cat), ValueAt(k, cat).v)

\* the sign of (value of record i in cat) - (mean of cat), all values finite
AboveMean(i, cat) ==
    RSign(RSub(RMul(ValueAt(i, cat).v, Rat(Len(records), 1)),
               SumValues(Len(records), cat)))

\* record i is strictly better than the mean of cat, as floats compare: a
\* nan compares false, and every number is below an inf mean
BetterThanMean(i, cat) ==
    IF FiniteMean(cat)
    THEN IF cat \in inverse_categories
         THEN AboveMean(i, cat) < 0
         ELSE AboveMean(i, cat) > 0
    ELSE /\ cat \in inverse_categories
         /\ ValueAt(i, cat).k = "num"
         /\ \A k \in 1..Len(records) : ValueAt(k, cat).k # "nan"

BetterEverywhere(i) ==
    \A cat \in CategoryKeys(categories) : BetterThanMean(i, cat)

SameValue(i, j, cat) ==
    \/ Get(records[i], cat, Str00) = Get(records[j], cat, Str00)
    \/ /\ ValueAt(i, cat).k = "num"
       /\ ValueAt(j, cat) = ValueAt(i, cat)

\* record i has the lower value in cat
LowerValue(i, j, cat) ==
    /\ ValueAt(i, cat).k = "num"
    /\ ValueAt(j, cat).k = "num"
    /\ RSign(RSub(ValueAt(i, cat).v, ValueAt(j, cat).v)) < 0

\* records i and j differ in the inverse category cat only, i being lower
DifferInInverseOnly(i, j, cat) ==
    /\ cat \in inverse_categories
    /\ cat \in CategoryKeys(categories)
    /\ LowerValue(i, j, cat)
    /\ \A other \in CategoryKeys(categories) \ {cat} : SameValue(i, j, other)

\* price of i >= price of j, both quotients by positive_total times budget
PriceAtLeast(i, j) ==
    /\ ~PriceAt(i).nan
    /\ ~PriceAt(j).nan
    /\ PriceAt(i).den = PriceAt(j).den
    /\ PriceAt(i).mul = PriceAt(j).mul
    /\ Sign(RealSub(PriceAt(i).num, PriceAt(j).num), stdevs)
         * Sign(PriceAt(i).den, stdevs) * RSign(PriceAt(i).mul) >= 0

\* C6: of two records that differ in one inverse category only, the one with
\* the lower value there has a price at least that of the other.
C6_InverseLowerPricesHigher ==
    Returned =>
        \A i, j \in 1..Len(records) :
            \A cat \in Cats :
                DifferInInverseOnly(i, j, cat) => PriceAtLeast(i, j)

-----------------------------------------------------------------------------
(* The claim about insert_data. *)

\* the rows of a table that carry the tag
RowsOf(name, team) ==
    IF name \in DOMAIN tables
    THEN SelectSeq(tables[name], LAMBDA row : row[1] = team)
    ELSE <<>>

\* the rows are one per record, in order, each with the ID of its record
OneRowPerRecord(tableRows, recs) ==
    /\ Len(tableRows) = Len(recs)
    /\ \A k \in 1..Len(recs) : tableRows[k][2] = Get(recs[k], "ID", <<>>)

\* C9: each table holds, for every tag, exactly the rows of the last load
\* made with that tag, one row per record passed in, and no row of a tag
\* that was never loaded.
C9_TablesHoldLastLoad ==
    \A team \in Teams :
        IF team \in DOMAIN last_load
        THEN /\ OneRowPerRecord(RowsOf("hitters", team), last_load[team].hitters)
             /\ OneRowPerRecord(RowsOf("pitchers", team), last_load[team].pitchers)
        ELSE /\ RowsOf("hitters", team) = <<>>
             /\ RowsOf("pitchers", team) = <<>>

=============================================================================
